---- MODULE Spec2Model ----
(***************************************************************************)
(* check-tls-cert: a Sensu check that validates its arguments (checkArgs), *)
(* dials the host over TLS with the derived tls.Config and classifies the  *)
(* leaf certificate's expiry (executeCheck).                               *)
(*                                                                         *)
(* Time is counted in ticks, TicksPerHour ticks to the hour, relative to   *)
(* the instant time.Now() returns in executeCheck (tick 0).                *)
(***************************************************************************)
EXTENDS Integers, Sequences, FiniteSets, TLC

\* ---------------------------------------------------------------- bounds
TicksPerHour == 2
MaxCritical == 2
MaxWarning == 3
\* The tick at which executeCheck reads time.Now().
TimeNow == 0

\* ------------------------------------------------------------- constants
HoursPerDay == 24
CheckStateOK == 0
CheckStateWarning == 1
CheckStateCritical == 2
DefaultPort == 443

Hour == TicksPerHour
Day == HoursPerDay * Hour

NilErr == "<nil>"

\* A hostname is the sequence of its dot-separated labels, each label known
\* by its kind: "alpha" starts with a letter and is alphanumeric, "digit" is
\* all digits, "bad" holds a character no host label may hold.
EmptyHost == << >>
DefaultHost == <<"bad">>
Hosts == { EmptyHost, DefaultHost, <<"alpha">>, <<"alpha", "alpha">>, <<"digit", "digit">> }

\* The files the --trusted-ca-file flag may name, and what each holds.
CAFiles == { "", "/nonexistent/ca.pem", "ca-A.pem" }
NilPool == [isNil |-> TRUE, cas |-> {}]
PoolOf(cas) == [isNil |-> FALSE, cas |-> cas]
Pools == { NilPool, PoolOf({"caA"}) }
\* The platform's trust store, used when RootCAs is nil.
SystemRoots == {"public"}

Configs == [Host : Hosts, TrustedCAFile : CAFiles, InsecureSkipVerify : BOOLEAN,
            Port : {DefaultPort}, Warning : (-1)..MaxWarning, Critical : (-1)..MaxCritical]

\* The zero Config of the package-level var plugin.
ZeroConfig == [Host |-> EmptyHost, TrustedCAFile |-> "", InsecureSkipVerify |-> FALSE,
               Port |-> 0, Warning |-> 0, Critical |-> 0]

\* The zero tls.Config of the package-level var tlsConfig.
ZeroTLS == [RootCAs |-> NilPool, InsecureSkipVerify |-> FALSE]

\* What the network holds at host:port when executeCheck dials: whether the
\* port answers, who signed the leaf certificate, when it expires, and the
\* shift of the local wall clock (daylight saving) over the days ahead.
Issuers == {"caA", "public", "self"}
NotAfters == (TimeNow - (Day + Hour))..(TimeNow + MaxWarning * Day + 2 * Hour)
DSTShifts == {-Hour, 0, Hour}
Unreachable == [reachable |-> FALSE, issuer |-> "self", NotAfter |-> TimeNow, dst |-> 0]
Worlds == [reachable : {TRUE}, issuer : Issuers, NotAfter : NotAfters, dst : DSTShifts]
              \cup {Unreachable}

VARIABLES plugin, tlsConfig, pc, argsRet, execRet, prevTLS, evaluated, events,
          world, dialled, report, conn

vars == <<plugin, tlsConfig, pc, argsRet, execRet, prevTLS, evaluated, events,
          world, dialled, report, conn>>

NoReturn == [called |-> FALSE, state |-> CheckStateOK, err |-> NilErr]
Return(state, err) == [called |-> TRUE, state |-> state, err |-> err]
NoReport == [kind |-> "none", days |-> 0, host |-> EmptyHost, port |-> 0]

\* -------------------------------------------------------------- checkArgs

\* validator "fqdn": at least two labels, none with an illegal character,
\* the last one starting with a letter.
IsFQDN(h) ==
    /\ Len(h) >= 2
    /\ \A i \in 1..Len(h) : h[i] # "bad"
    /\ h[Len(h)] = "alpha"

\* corev2.LoadCACerts: the pool parsed from the PEM bundle, or an error.
LoadCACerts(path) ==
    IF path = "ca-A.pem" THEN [ok |-> TRUE, pool |-> PoolOf({"caA"})]
    ELSE [ok |-> FALSE, pool |-> NilPool]

MissingCritical(p) == p.Critical <= 0

MissingWarning(p) == p.Warning <= 0

Inverted_strict(p) == p.Warning < p.Critical

Inverted(p) == p.Warning <= p.Critical

Failed_critical(msg, tc, checks, ev) ==
    [state |-> CheckStateCritical, err |-> msg, tlsConfig |-> tc,
     evaluated |-> checks, events |-> ev]

Failed_reset(msg, tc, checks, ev) ==
    [state |-> CheckStateWarning, err |-> msg, tlsConfig |-> ZeroTLS,
     evaluated |-> checks, events |-> ev]

\* return sensu.CheckStateWarning, fmt.Errorf(msg): tlsConfig is left alone.
Failed(msg, tc, checks, ev) ==
    [state |-> CheckStateWarning, err |-> msg, tlsConfig |-> tc,
     evaluated |-> checks, events |-> ev]

Passed(tc, checks, ev) ==
    [state |-> CheckStateOK, err |-> NilErr, tlsConfig |-> tc,
     evaluated |-> checks, events |-> ev]

checkArgs_warningFirst(p, tc) ==
    IF Len(p.Host) = 0
    THEN Failed("--hostname is required", tc, <<"hostname">>, << >>)
    ELSE IF ~IsFQDN(p.Host)
    THEN Failed("hostname is not a valid FQDN", tc, <<"hostname", "fqdn">>, << >>)
    ELSE IF MissingWarning(p)
    THEN Failed("--warning is required", tc, <<"hostname", "fqdn", "warning">>, << >>)
    ELSE IF MissingCritical(p)
    THEN Failed("--critical is required", tc, <<"hostname", "fqdn", "warning", "critical">>, << >>)
    ELSE IF Inverted(p)
    THEN Failed("warning cannot be lower than Critical value", tc,
                <<"hostname", "fqdn", "warning", "critical", "inverted">>, << >>)
    ELSE IF Len(p.TrustedCAFile) > 0
    THEN LET loaded == LoadCACerts(p.TrustedCAFile) IN
         IF ~loaded.ok
         THEN Failed("error loading specified CA file", tc,
                     <<"hostname", "fqdn", "warning", "critical", "inverted", "cafile">>,
                     <<"readCA">>)
         ELSE Passed([RootCAs |-> loaded.pool, InsecureSkipVerify |-> p.InsecureSkipVerify],
                     <<"hostname", "fqdn", "warning", "critical", "inverted", "cafile">>,
                     <<"readCA">>)
    ELSE Passed([tc EXCEPT !.InsecureSkipVerify = p.InsecureSkipVerify],
                <<"hostname", "fqdn", "warning", "critical", "inverted">>, << >>)

\* checkArgs on the globals plugin (p) and tlsConfig (tc): the status and
\* error it returns, the tlsConfig it leaves, the checks it evaluated in
\* order and the I/O it did.
checkArgs(p, tc) ==
    IF Len(p.Host) = 0
    THEN Failed("--hostname is required", tc, <<"hostname">>, << >>)
    ELSE IF ~IsFQDN(p.Host)
    THEN Failed("hostname is not a valid FQDN", tc, <<"hostname", "fqdn">>, << >>)
    ELSE IF MissingCritical(p)
    THEN Failed("--critical is required", tc, <<"hostname", "fqdn", "critical">>, << >>)
    ELSE IF MissingWarning(p)
    THEN Failed("--warning is required", tc, <<"hostname", "fqdn", "critical", "warning">>, << >>)
    ELSE IF Inverted(p)
    THEN Failed("warning cannot be lower than Critical value", tc,
                <<"hostname", "fqdn", "critical", "warning", "inverted">>, << >>)
    ELSE IF Len(p.TrustedCAFile) > 0
    THEN LET loaded == LoadCACerts(p.TrustedCAFile) IN
         IF ~loaded.ok
         THEN Failed("error loading specified CA file", tc,
                     <<"hostname", "fqdn", "critical", "warning", "inverted", "cafile">>,
                     <<"readCA">>)
         ELSE Passed([RootCAs |-> loaded.pool, InsecureSkipVerify |-> p.InsecureSkipVerify],
                     <<"hostname", "fqdn", "critical", "warning", "inverted", "cafile">>,
                     <<"readCA">>)
    ELSE Passed([tc EXCEPT !.InsecureSkipVerify = p.InsecureSkipVerify],
                <<"hostname", "fqdn", "critical", "warning", "inverted">>, << >>)

\* ----------------------------------------------------------- executeCheck

\* Go's integer division and float-to-int conversion truncate toward zero.
TruncDiv(a, b) == IF a >= 0 THEN a \div b ELSE -((-a) \div b)

After_orEqual(t, u) == t >= u

\* time.Time.After
After(t, u) == t > u

\* time.Time.AddDate(0, 0, days): the same wall clock, days calendar days
\* later in the local zone; a daylight-saving change in between shifts the
\* instant by dst.
AddDate(t, days, dst) == t + days * Day + (IF days > 0 THEN dst ELSE 0)

Roots(cfg) == IF cfg.RootCAs.isNil THEN SystemRoots ELSE cfg.RootCAs.cas

\* tls.Dial("tcp", host:port, cfg) against the world w: the TCP connect,
\* then the handshake, which verifies the chain unless InsecureSkipVerify.
Dial(cfg, w) ==
    IF ~w.reachable
    THEN [ok |-> FALSE, err |-> [kind |-> "net", text |-> "dial tcp: connect: connection refused"]]
    ELSE IF ~cfg.InsecureSkipVerify /\ w.issuer \notin Roots(cfg)
    THEN [ok |-> FALSE, err |-> [kind |-> "x509", text |-> "x509: certificate signed by unknown authority"]]
    ELSE IF ~cfg.InsecureSkipVerify /\ TimeNow > w.NotAfter
    THEN [ok |-> FALSE, err |-> [kind |-> "x509", text |-> "x509: certificate has expired or is not yet valid"]]
    ELSE [ok |-> TRUE, err |-> [kind |-> "none", text |-> NilErr]]

Errorf_generic(e) == "connection failed"

\* fmt.Errorf("%v", err): a new error holding err's text.
Errorf(e) == e.text

DialConfig_nil(tc) == ZeroTLS

\* The *tls.Config handed to tls.Dial: &tlsConfig.
DialConfig(tc) == tc

ExpiresInDays_floor(now, notAfter) == ((notAfter - now) \div Hour) \div HoursPerDay

ExpiresInDays_roundUp(now, notAfter) == -(((now - notAfter) \div Hour) \div HoursPerDay)

\* expiresInDays: whole hours to expiry, then whole days.
ExpiresInDays(now, notAfter) ==
    LET expiresInHours == TruncDiv(notAfter - now, Hour)
    IN  TruncDiv(expiresInHours, HoursPerDay)

Classify_warningFirst(p, now, notAfter, dst) ==
    IF After(AddDate(now, p.Warning, dst), notAfter) THEN "warning"
    ELSE IF After(AddDate(now, p.Critical, dst), notAfter) THEN "critical"
    ELSE "ok"

Classify_noWarning(p, now, notAfter, dst) ==
    IF After(AddDate(now, p.Critical, dst), notAfter) THEN "critical"
    ELSE "ok"

\* The expiration checks, critical first.
Classify(p, now, notAfter, dst) ==
    IF After(AddDate(now, p.Critical, dst), notAfter) THEN "critical"
    ELSE IF After(AddDate(now, p.Warning, dst), notAfter) THEN "warning"
    ELSE "ok"

StateOf(kind) ==
    CASE kind = "critical" -> CheckStateCritical
      [] kind = "warning" -> CheckStateWarning
      [] OTHER -> CheckStateOK

OnDialError_retry(cfg, e) ==
    [state |-> CheckStateCritical, err |-> Errorf(e), dialled |-> cfg,
     events |-> <<"dial", "dial">>, report |-> NoReport, conn |-> "none"]

\* if err != nil { return sensu.CheckStateCritical, fmt.Errorf("%v", err) }
OnDialError(cfg, e) ==
    [state |-> CheckStateCritical, err |-> Errorf(e), dialled |-> cfg,
     events |-> <<"dial">>, report |-> NoReport, conn |-> "none"]

Deferred_onOKOnly(ev, kind) == IF kind = "ok" THEN ev \o <<"close">> ELSE ev

\* defer func() { _ = conn.Close() }(): runs as executeCheck returns,
\* whichever return is taken.
Deferred(ev, kind) == ev \o <<"close">>

\* The connection once executeCheck has done ev after a successful dial.
ConnAfter(ev) == IF \E k \in 1..Len(ev) : ev[k] = "close" THEN "closed" ELSE "open"

\* executeCheck on the globals plugin (p) and tlsConfig (tc) against the
\* world w.
executeCheck(p, tc, w) ==
    LET cfg == DialConfig(tc)
        d == Dial(cfg, w)
    IN  IF ~d.ok
        THEN OnDialError(cfg, d.err)
        ELSE LET timeNow == TimeNow
                 expiresInDays == ExpiresInDays(timeNow, w.NotAfter)
                 kind == Classify(p, timeNow, w.NotAfter, w.dst)
                 ev == Deferred(<<"dial", "readCert", "print">>, kind)
             IN  [state |-> StateOf(kind), err |-> NilErr, dialled |-> cfg,
                  events |-> ev,
                  report |-> [kind |-> kind, days |-> expiresInDays,
                              host |-> IF kind = "ok" THEN p.Host ELSE EmptyHost,
                              port |-> IF kind = "ok" THEN p.Port ELSE 0],
                  conn |-> ConnAfter(ev)]

\* ---------------------------------------------------------------- actions
Init ==
    /\ plugin = ZeroConfig
    /\ tlsConfig = ZeroTLS
    /\ pc = "start"
    /\ argsRet = NoReturn
    /\ execRet = NoReturn
    /\ prevTLS = ZeroTLS
    /\ evaluated = << >>
    /\ events = << >>
    /\ world = Unreachable
    /\ dialled = ZeroTLS
    /\ report = NoReport
    /\ conn = "none"

\* check.Execute(): the flags are parsed into plugin before checkArgs runs.
ParseFlags ==
    /\ pc = "start"
    /\ \E c \in Configs : plugin' = c
    /\ pc' = "parsed"
    /\ UNCHANGED <<tlsConfig, argsRet, execRet, prevTLS, evaluated, events,
                   world, dialled, report, conn>>

\* check.Execute() calls the validation function once the flags are parsed.
RunCheckArgs ==
    /\ pc = "parsed"
    /\ LET r == checkArgs(plugin, tlsConfig) IN
        /\ tlsConfig' = r.tlsConfig
        /\ prevTLS' = tlsConfig
        /\ argsRet' = Return(r.state, r.err)
        /\ evaluated' = r.evaluated
        /\ events' = events \o <<"checkArgs">> \o r.events
        /\ pc' = IF r.err = NilErr THEN "validated" ELSE "exit"
    /\ UNCHANGED <<plugin, execRet, world, dialled, report, conn>>

MayExecute_always == pc \in {"parsed", "validated"}

\* check.Execute() calls the execute function only after the validation
\* function returned no error.
MayExecute == pc = "validated"

RunExecuteCheck ==
    /\ MayExecute
    /\ \E w \in Worlds :
        LET r == executeCheck(plugin, tlsConfig, w) IN
        /\ world' = w
        /\ execRet' = Return(r.state, r.err)
        /\ dialled' = r.dialled
        /\ report' = r.report
        /\ conn' = r.conn
        /\ events' = events \o <<"executeCheck">> \o r.events
    /\ pc' = "exit"
    /\ UNCHANGED <<plugin, tlsConfig, argsRet, prevTLS, evaluated>>

Next ==
    \/ ParseFlags
    \/ RunCheckArgs
    \/ RunExecuteCheck

Spec == Init /\ [][Next]_vars

\* ------------------------------------------------- the package under test
\* The package's tests drive the same globals call by call: they assign
\* plugin, reset or edit tlsConfig, and call checkArgs and executeCheck in
\* any order.

\* The servers the tests start: a certificate issued a moment before the
\* check reads the clock, valid for a whole number of days.
TestWorlds ==
    { [reachable |-> TRUE, issuer |-> i, NotAfter |-> TimeNow + d * Day - 1, dst |-> 0] :
        i \in {"self", "caA"}, d \in 1..(MaxWarning + 1) } \cup {Unreachable}

InitApi ==
    /\ plugin = ZeroConfig
    /\ tlsConfig = ZeroTLS
    /\ pc = "test"
    /\ argsRet = NoReturn
    /\ execRet = NoReturn
    /\ prevTLS = ZeroTLS
    /\ evaluated = << >>
    /\ events = << >>
    /\ world = Unreachable
    /\ dialled = ZeroTLS
    /\ report = NoReport
    /\ conn = "none"

\* A test case begins: tlsConfig = tls.Config{}
ApiResetTLS ==
    /\ pc \in {"test", "ran"}
    /\ tlsConfig' = ZeroTLS
    /\ pc' = "test"
    /\ argsRet' = NoReturn
    /\ execRet' = NoReturn
    /\ prevTLS' = ZeroTLS
    /\ evaluated' = << >>
    /\ events' = << >>
    /\ world' = Unreachable
    /\ dialled' = ZeroTLS
    /\ report' = NoReport
    /\ conn' = "none"
    /\ UNCHANGED plugin

\* plugin = tt.config; checkArgs(nil)
ApiCheckArgs ==
    /\ pc = "test"
    /\ \E c \in Configs :
        LET r == checkArgs(c, tlsConfig) IN
        /\ plugin' = c
        /\ tlsConfig' = r.tlsConfig
        /\ prevTLS' = tlsConfig
        /\ argsRet' = Return(r.state, r.err)
        /\ evaluated' = r.evaluated
        /\ events' = <<"checkArgs">> \o r.events
    /\ execRet' = NoReturn
    /\ world' = Unreachable
    /\ dialled' = ZeroTLS
    /\ report' = NoReport
    /\ conn' = "none"
    /\ UNCHANGED pc

\* executeCheck(nil) on the globals as they stand; the test case ends.
ApiExecuteCheck ==
    /\ pc = "test"
    /\ \E w \in TestWorlds :
        LET r == executeCheck(plugin, tlsConfig, w) IN
        /\ world' = w
        /\ execRet' = Return(r.state, r.err)
        /\ dialled' = r.dialled
        /\ report' = r.report
        /\ conn' = r.conn
        /\ events' = events \o <<"executeCheck">> \o r.events
    /\ pc' = "ran"
    /\ UNCHANGED <<plugin, tlsConfig, argsRet, prevTLS, evaluated>>

NextApi ==
    \/ ApiResetTLS
    \/ ApiCheckArgs
    \/ ApiExecuteCheck

SpecApi == InitApi /\ [][NextApi]_vars

\* ------------------------------------------------------------- properties
Handshaked == execRet.called /\ conn = "closed"
ValidThresholds == plugin.Warning > plugin.Critical /\ plugin.Critical > 0
\* now + criticalDays days and now + warningDays days, as executeCheck forms them.
CriticalAt == AddDate(TimeNow, plugin.Critical, world.dst)
WarningAt == AddDate(TimeNow, plugin.Warning, world.dst)

\* C1, as claimed: after a successful handshake the result is CRITICAL
\* whenever now + criticalDays days >= notAfter, equality included.
C1_AsClaimed ==
    (Handshaked /\ CriticalAt >= world.NotAfter) => execRet.state = CheckStateCritical

\* C1, amended: after a successful handshake the result is CRITICAL whenever
\* now + criticalDays days is strictly after notAfter; when the two are
\* equal the result is not CRITICAL.
C1_CriticalStrictlyAfter ==
    Handshaked =>
        /\ CriticalAt > world.NotAfter =>
              /\ execRet.state = CheckStateCritical
              /\ execRet.err = NilErr
              /\ report.kind = "critical"
        /\ CriticalAt = world.NotAfter => execRet.state # CheckStateCritical

C1_Witness ==
    /\ Handshaked
    /\ CriticalAt = world.NotAfter + 1
    /\ execRet.state = CheckStateCritical

\* C2, as claimed: when the critical condition (>=) does not hold, the result
\* is WARNING whenever now + warningDays days >= notAfter, equality included,
\* and OK when now + warningDays days < notAfter.
C2_AsClaimed ==
    (Handshaked /\ ~(CriticalAt >= world.NotAfter)) =>
        /\ WarningAt >= world.NotAfter => execRet.state = CheckStateWarning
        /\ WarningAt < world.NotAfter => execRet.state = CheckStateOK

\* C2, amended: when now + criticalDays days is not after notAfter, the
\* result is WARNING whenever now + warningDays days is strictly after
\* notAfter and OK otherwise, equality included in OK.
C2_WarningStrictlyAfter ==
    (Handshaked /\ ~(CriticalAt > world.NotAfter)) =>
        /\ WarningAt > world.NotAfter =>
              /\ execRet.state = CheckStateWarning
              /\ report.kind = "warning"
        /\ WarningAt <= world.NotAfter =>
              /\ execRet.state = CheckStateOK
              /\ report.kind = "ok"
              /\ report.host = plugin.Host
              /\ report.port = plugin.Port
        /\ execRet.err = NilErr

C2_Witness ==
    /\ Handshaked
    /\ CriticalAt = world.NotAfter
    /\ WarningAt > world.NotAfter
    /\ execRet.state = CheckStateWarning

\* C3, as claimed: with valid thresholds, a notAfter within both the critical
\* bound and the warning bound (each >=, as the classification states them)
\* is reported CRITICAL.
C3_AsClaimed ==
    (Handshaked /\ ValidThresholds
        /\ CriticalAt >= world.NotAfter /\ WarningAt >= world.NotAfter) =>
        execRet.state = CheckStateCritical

\* C3, amended: with valid thresholds, a notAfter strictly before both
\* now + criticalDays days and now + warningDays days is reported CRITICAL,
\* never WARNING.
C3_CriticalTakesPrecedence ==
    (Handshaked /\ ValidThresholds
        /\ CriticalAt > world.NotAfter /\ WarningAt > world.NotAfter) =>
        /\ execRet.state = CheckStateCritical
        /\ report.kind = "critical"

C3_Witness ==
    /\ Handshaked
    /\ ValidThresholds
    /\ CriticalAt > world.NotAfter
    /\ WarningAt > world.NotAfter
    /\ world.NotAfter > TimeNow
    /\ execRet.state = CheckStateCritical

InvertedMsg == "warning cannot be lower than Critical value"

\* C4, as claimed: with a valid hostname, any warningDays <= criticalDays
\* makes checkArgs fail with the inverted-thresholds error.
C4_AsClaimed ==
    (argsRet.called /\ IsFQDN(plugin.Host) /\ plugin.Warning <= plugin.Critical) =>
        argsRet.err = InvertedMsg

\* C4, amended: with a valid hostname and warningDays <= criticalDays,
\* checkArgs fails at WARNING with the inverted-thresholds error when both
\* thresholds are positive, with "--critical is required" when
\* criticalDays <= 0, and with "--warning is required" when
\* criticalDays > 0 >= warningDays.
C4_InvertedWhenPositive ==
    (argsRet.called /\ IsFQDN(plugin.Host) /\ plugin.Warning <= plugin.Critical) =>
        /\ argsRet.state = CheckStateWarning
        /\ argsRet.err = IF plugin.Critical <= 0 THEN "--critical is required"
                         ELSE IF plugin.Warning <= 0 THEN "--warning is required"
                         ELSE InvertedMsg

C4_Witness ==
    /\ argsRet.called
    /\ IsFQDN(plugin.Host)
    /\ plugin.Warning = plugin.Critical
    /\ plugin.Critical > 0
    /\ argsRet.err = InvertedMsg

CheckOrder == <<"hostname", "fqdn", "critical", "warning", "inverted", "cafile">>

CheckFails(name, p) ==
    CASE name = "hostname" -> p.Host = EmptyHost
      [] name = "fqdn" -> ~IsFQDN(p.Host)
      [] name = "critical" -> p.Critical <= 0
      [] name = "warning" -> p.Warning <= 0
      [] name = "inverted" -> p.Warning <= p.Critical
      [] name = "cafile" -> p.TrustedCAFile # "" /\ ~LoadCACerts(p.TrustedCAFile).ok

ReasonOf(name) ==
    CASE name = "hostname" -> "--hostname is required"
      [] name = "fqdn" -> "hostname is not a valid FQDN"
      [] name = "critical" -> "--critical is required"
      [] name = "warning" -> "--warning is required"
      [] name = "inverted" -> InvertedMsg
      [] name = "cafile" -> "error loading specified CA file"

FailingChecks(p) == { i \in 1..Len(CheckOrder) : CheckFails(CheckOrder[i], p) }

FirstFailure(p) ==
    IF FailingChecks(p) = {} THEN 0
    ELSE CHOOSE i \in FailingChecks(p) : \A j \in FailingChecks(p) : i <= j

\* C5: checkArgs evaluates hostname, FQDN, critical, warning, inverted and
\* CA file in that order, returns the error of the first check that fails,
\* evaluates nothing after it, and reads the CA file only when every
\* hostname and threshold check passed.
C5_FirstFailureWins ==
    argsRet.called =>
        LET i == FirstFailure(plugin) IN
        /\ i = 0 => argsRet.err = NilErr
        /\ i > 0 =>
              /\ argsRet.err = ReasonOf(CheckOrder[i])
              /\ evaluated = SubSeq(CheckOrder, 1, i)
        /\ (\E k \in 1..Len(events) : events[k] = "readCA") =>
              /\ plugin.TrustedCAFile # ""
              /\ \A j \in 1..5 : ~CheckFails(CheckOrder[j], plugin)

C5_Witness ==
    /\ argsRet.called
    /\ IsFQDN(plugin.Host)
    /\ plugin.Critical <= 0
    /\ plugin.Warning <= 0
    /\ plugin.TrustedCAFile = "/nonexistent/ca.pem"
    /\ argsRet.err = "--critical is required"
    /\ evaluated = <<"hostname", "fqdn", "critical">>
    /\ events = <<"checkArgs">>

\* C6: every configuration error is returned at WARNING with its specific
\* reason as a non-nil error, and checkArgs returns OK with a nil error
\* exactly when no check fails.
C6_ConfigErrorsAreWarnings ==
    argsRet.called =>
        /\ FailingChecks(plugin) # {} =>
              /\ argsRet.state = CheckStateWarning
              /\ argsRet.err # NilErr
              /\ \E i \in FailingChecks(plugin) : argsRet.err = ReasonOf(CheckOrder[i])
        /\ (argsRet.state = CheckStateOK /\ argsRet.err = NilErr) <=> FailingChecks(plugin) = {}
        /\ argsRet.state = CheckStateOK <=> argsRet.err = NilErr

C6_Witness ==
    /\ argsRet.called
    /\ FailingChecks(plugin) = {6}
    /\ argsRet.state = CheckStateWarning
    /\ argsRet.err = "error loading specified CA file"

\* C7: when the connection or the handshake fails, executeCheck returns
\* CRITICAL with a non-nil error carrying the transport error's text, reads
\* no peer certificate and reports no expiry.
C7_DialFailureIsCritical ==
    (execRet.called /\ ~Dial(dialled, world).ok) =>
        /\ execRet.state = CheckStateCritical
        /\ execRet.err # NilErr
        /\ execRet.err = Dial(dialled, world).err.text
        /\ \A k \in 1..Len(events) : events[k] \notin {"readCert", "print", "close"}
        /\ report = NoReport
        /\ conn = "none"

C7_Witness ==
    /\ execRet.called
    /\ world.reachable
    /\ ~dialled.InsecureSkipVerify
    /\ world.issuer \notin Roots(dialled)
    /\ execRet.state = CheckStateCritical
    /\ execRet.err = "x509: certificate signed by unknown authority"

\* The trust policy the configuration p calls for.
PolicyFor(p) ==
    [RootCAs |-> IF p.TrustedCAFile # "" THEN LoadCACerts(p.TrustedCAFile).pool ELSE NilPool,
     InsecureSkipVerify |-> p.InsecureSkipVerify]

\* C8: whenever checkArgs succeeds, whatever tlsConfig held before, RootCAs
\* is the bundle of TrustedCAFile when that is set and nil (the platform
\* default) when it is empty, and InsecureSkipVerify is the configured flag.
C8_PolicyFromConfigAlone ==
    (argsRet.called /\ argsRet.err = NilErr /\ ~execRet.called) => tlsConfig = PolicyFor(plugin)

\* C9: executeCheck dials with exactly the policy the preceding successful
\* checkArgs derived; with a CA file and verification on, a reachable server
\* whose unexpired certificate that CA signed is handshaked with and
\* classified from its own notAfter.
C9_DialsWithDerivedPolicy ==
    execRet.called =>
        /\ dialled = tlsConfig
        /\ dialled = PolicyFor(plugin)
        /\ (/\ plugin.TrustedCAFile = "ca-A.pem"
            /\ ~plugin.InsecureSkipVerify
            /\ world.reachable
            /\ world.issuer = "caA"
            /\ world.NotAfter >= TimeNow) =>
              /\ execRet.err = NilErr
              /\ conn = "closed"
              /\ report.days = TruncDiv(TruncDiv(world.NotAfter - TimeNow, Hour), HoursPerDay)
              /\ (report.kind = "ok") = (WarningAt <= world.NotAfter)

C9_Witness ==
    /\ execRet.called
    /\ plugin.TrustedCAFile = "ca-A.pem"
    /\ ~plugin.InsecureSkipVerify
    /\ world.issuer = "caA"
    /\ dialled.RootCAs = PoolOf({"caA"})
    /\ execRet.err = NilErr
    /\ execRet.state = CheckStateOK

Position(seq, e) ==
    IF \E k \in 1..Len(seq) : seq[k] = e
    THEN CHOOSE k \in 1..Len(seq) : seq[k] = e /\ \A j \in 1..(k - 1) : seq[j] # e
    ELSE 0

\* C10: in every run checkArgs runs before executeCheck, executeCheck runs
\* only after checkArgs returned no error, and no dial happens during
\* checkArgs or after a failed checkArgs.
C10_ValidateThenExecute ==
    /\ execRet.called => (argsRet.called /\ argsRet.err = NilErr)
    /\ Position(events, "executeCheck") > 0 =>
          /\ Position(events, "checkArgs") > 0
          /\ Position(events, "checkArgs") < Position(events, "executeCheck")
    /\ Position(events, "dial") > 0 =>
          /\ Position(events, "executeCheck") > 0
          /\ Position(events, "executeCheck") < Position(events, "dial")
    /\ (argsRet.called /\ argsRet.err # NilErr) =>
          /\ ~execRet.called
          /\ Position(events, "dial") = 0
          /\ Position(events, "executeCheck") = 0
          /\ pc = "exit"

C10_Witness ==
    /\ pc = "exit"
    /\ execRet.called
    /\ events = <<"checkArgs", "readCA", "executeCheck", "dial", "readCert", "print", "close">>

\* Ticks from now to notAfter, negative once the certificate has expired.
Remaining == world.NotAfter - TimeNow
\* The whole number of hours in Remaining, as int64(Duration.Hours()) yields.
HoursRemaining ==
    CHOOSE h \in (-(HoursPerDay + 1))..((MaxWarning + 1) * HoursPerDay) :
        IF Remaining >= 0
        THEN h * Hour <= Remaining /\ Remaining < (h + 1) * Hour
        ELSE (h - 1) * Hour < Remaining /\ Remaining <= h * Hour
\* floor(n / HoursPerDay): the greatest d with d * HoursPerDay <= n.
FloorDays(n) ==
    CHOOSE d \in (-2)..(MaxWarning + 1) : d * HoursPerDay <= n /\ n < (d + 1) * HoursPerDay

\* C11, as claimed: for every certificate read, expired ones included, the
\* reported days equal floor(hoursRemaining / 24).
C11_AsClaimed ==
    Handshaked => report.days = FloorDays(HoursRemaining)

\* C11, amended: the reported days equal hoursRemaining / 24 truncated toward
\* zero: floor(hoursRemaining / 24) while notAfter is not in the past, and
\* the least integer not below hoursRemaining / 24 once it is (a certificate
\* expired by less than 24 hours reports 0 days); 47 hours report 1 day.
C11_DaysTruncateTowardZero ==
    Handshaked =>
        /\ HoursRemaining >= 0 =>
              /\ report.days = FloorDays(HoursRemaining)
              /\ report.days >= 0
        /\ HoursRemaining < 0 =>
              /\ report.days <= 0
              /\ (report.days - 1) * HoursPerDay < HoursRemaining
              /\ HoursRemaining <= report.days * HoursPerDay
        /\ HoursRemaining = 2 * HoursPerDay - 1 => report.days = 1

C11_Witness ==
    /\ Handshaked
    /\ Remaining < 0
    /\ Remaining > -Day
    /\ report.days = 0
    /\ report.kind = "critical"

Count(seq, e) == Cardinality({ k \in 1..Len(seq) : seq[k] = e })

\* C12: a connection executeCheck opened is closed when it returns, on the
\* CRITICAL, WARNING and OK paths alike, once and only after the peer
\* certificate was read; a failed dial leaves no connection open.
C12_ConnectionClosedOnReturn ==
    execRet.called =>
        /\ report.kind \in {"critical", "warning", "ok"} =>
              /\ conn = "closed"
              /\ Count(events, "close") = 1
              /\ Position(events, "dial") < Position(events, "readCert")
              /\ Position(events, "readCert") < Position(events, "close")
              /\ events[Len(events)] = "close"
        /\ report.kind = "none" =>
              /\ conn = "none"
              /\ Count(events, "close") = 0
              /\ Count(events, "readCert") = 0
        /\ conn # "open"

C12_Witness ==
    /\ execRet.called
    /\ execRet.state = CheckStateWarning
    /\ conn = "closed"
    /\ events[Len(events)] = "close"

\* C13: one invocation makes at most one dial (TCP connection and TLS
\* handshake); a failed dial ends the invocation without another attempt,
\* and a failed validation leads to none.
C13_AtMostOneDial ==
    /\ Count(events, "dial") <= 1
    /\ Count(events, "executeCheck") <= 1
    /\ (execRet.called /\ execRet.err # NilErr) =>
          /\ Count(events, "dial") = 1
          /\ pc = "exit"
          /\ ~ENABLED RunExecuteCheck
    /\ (argsRet.called /\ argsRet.err # NilErr) =>
          /\ Count(events, "dial") = 0
          /\ ~ENABLED RunExecuteCheck

C13_Witness ==
    /\ execRet.called
    /\ execRet.err # NilErr
    /\ ~world.reachable
    /\ Count(events, "dial") = 1
    /\ pc = "exit"

\* C14: whenever checkArgs returns an error, for any of its six reasons,
\* tlsConfig is exactly what it was before the call.
C14_FailureLeavesTLSConfig ==
    (argsRet.called /\ argsRet.err # NilErr) =>
        /\ tlsConfig = prevTLS
        /\ argsRet.err \in { ReasonOf(CheckOrder[i]) : i \in 1..Len(CheckOrder) }

C14_Witness ==
    /\ argsRet.called
    /\ argsRet.err = "error loading specified CA file"
    /\ plugin.InsecureSkipVerify
    /\ prevTLS = [RootCAs |-> PoolOf({"caA"}), InsecureSkipVerify |-> FALSE]
    /\ tlsConfig = prevTLS

\* The severity executeCheck would return for a certificate expiring at t,
\* everything else as in the check just run.
SeverityAt(t) == StateOf(Classify(plugin, TimeNow, t, world.dst))

\* C15, as claimed: with valid thresholds CRITICAL implies
\* daysRemaining < criticalDays, WARNING implies
\* criticalDays <= daysRemaining < warningDays and OK implies
\* daysRemaining >= warningDays.
C15_AsClaimed ==
    (Handshaked /\ ValidThresholds) =>
        /\ execRet.state = CheckStateCritical => report.days < plugin.Critical
        /\ execRet.state = CheckStateWarning =>
              (plugin.Critical <= report.days /\ report.days < plugin.Warning)
        /\ execRet.state = CheckStateOK => report.days >= plugin.Warning

\* C15, amended: with valid thresholds the severity agrees with the printed
\* daysRemaining exactly when the local clock does not shift within the
\* threshold days, and to within one day when it does (a shift of an hour):
\* CRITICAL implies daysRemaining <= criticalDays, WARNING implies
\* criticalDays - 1 <= daysRemaining <= warningDays, OK implies
\* daysRemaining >= warningDays - 1; and the severity never becomes more
\* severe as notAfter moves later.
C15_SeverityTracksDays ==
    (Handshaked /\ ValidThresholds) =>
        /\ world.dst = 0 =>
              /\ execRet.state = CheckStateCritical => report.days < plugin.Critical
              /\ execRet.state = CheckStateWarning =>
                    (plugin.Critical <= report.days /\ report.days < plugin.Warning)
              /\ execRet.state = CheckStateOK => report.days >= plugin.Warning
        /\ execRet.state = CheckStateCritical => report.days <= plugin.Critical
        /\ execRet.state = CheckStateWarning =>
              (plugin.Critical - 1 <= report.days /\ report.days <= plugin.Warning)
        /\ execRet.state = CheckStateOK => report.days >= plugin.Warning - 1
        /\ \A t \in NotAfters : t >= world.NotAfter => SeverityAt(t) <= execRet.state

C15_Witness ==
    /\ Handshaked
    /\ ValidThresholds
    /\ world.dst = Hour
    /\ execRet.state = CheckStateCritical
    /\ report.days = plugin.Critical

====
